---- MODULE Spec2Model ----
(***************************************************************************)
(* Model of build_filters.py: the fold of vector-tile features into a      *)
(* country -> region -> place tree of accumulator nodes, and its           *)
(* serialization.                                                          *)
(*                                                                         *)
(* Python values are tagged records (NoneV, Num, Str, Bool, List).         *)
(* Strings are sequences of one-character strings.  Floats are integers    *)
(* that keep a MantBits-bit significand: every arithmetic result is        *)
(* rounded to nearest, ties to even, as IEEE-754 binary64 does with 53     *)
(* bits.  One unit of a number stands for half of 10^-6, so that           *)
(* round(x, 6) rounds to a multiple of RoundUnit.  NaN and the infinities  *)
(* are not values of the model.                                            *)
(***************************************************************************)
EXTENDS Integers, Sequences, FiniteSets, TLC

(* ------------------------------ bounds -------------------------------- *)
MaxTiles == 2

MaxFeat == 1

MaxRecords == 3

MantBits == 4

(* --------------------------- Python values ---------------------------- *)
NoneV == [t |-> "none"]

Num(n) == [t |-> "num", n |-> n]

Str(s) == [t |-> "str", s |-> s]

Bool(b) == [t |-> "bool", b |-> b]

List(v) == [t |-> "list", v |-> v]

\* bool(v): Python truthiness
Truthy(v) ==
  CASE v.t = "none" -> FALSE
    [] v.t = "num"  -> v.n # 0
    [] v.t = "str"  -> v.s # <<>>
    [] v.t = "bool" -> v.b
    [] v.t = "list" -> v.v # <<>>

\* a or b
Or(a, b) == IF Truthy(a) THEN a ELSE b

\* props.get(key): None when the key is missing
Get(props, key) == IF key \in DOMAIN props THEN props[key] ELSE NoneV

(* ------------------------------ strings ------------------------------- *)
IsSpace(c) == c \in {" ", "\t"}

RECURSIVE LStrip(_)
LStrip(s) == IF s # <<>> /\ IsSpace(Head(s)) THEN LStrip(Tail(s)) ELSE s

RECURSIVE RStrip(_)
RStrip(s) ==
  IF s # <<>> /\ IsSpace(s[Len(s)]) THEN RStrip(SubSeq(s, 1, Len(s) - 1)) ELSE s

\* str.strip()
Strip(s) == RStrip(LStrip(s))

SinPais == <<"S", "i", "n", " ", "p", "a", "í", "s">>

SinRegion == <<"S", "i", "n", " ", "r", "e", "g", "i", "ó", "n">>

SinLugar == <<"S", "i", "n", " ", "l", "u", "g", "a", "r">>

(* ------------------------------- floats ------------------------------- *)
RoundUnit == 2

Abs(x) == IF x < 0 THEN -x ELSE x

\* the multiple of step nearest to num/den (den > 0, step > 0), ties to the
\* even multiple
RoundRatio(num, den, step) ==
  LET d == den * step
      q == num \div d
      r == num - q * d
  IN  IF 2 * r < d THEN q * step
      ELSE IF 2 * r > d THEN (q + 1) * step
      ELSE IF q % 2 = 0 THEN q * step ELSE (q + 1) * step

RECURSIVE UlpFrom(_, _)
UlpFrom(a, u) == IF a < (2 ^ MantBits) * u THEN u ELSE UlpFrom(a, 2 * u)

\* spacing of the floats around magnitude a
Ulp(a) == UlpFrom(a, 1)

\* the float nearest to the real x
FRound(x) == RoundRatio(x, 1, Ulp(Abs(x)))

\* float + float
FAdd(a, b) == FRound(a + b)

\* float / int
FDiv(a, n) == RoundRatio(a, n, Ulp(Abs(a) \div n))

\* round(x, 6)
Round6(x) == FRound(RoundRatio(x, 1, RoundUnit))

Min(a, b) == IF b < a THEN b ELSE a

Max(a, b) == IF b > a THEN b ELSE a

(* ------------------------------ float() ------------------------------- *)
Digits == <<"0", "1", "2", "3", "4", "5", "6", "7", "8", "9">>

IsDigit(c) == \E i \in 1..Len(Digits) : Digits[i] = c

DigitVal(c) == (CHOOSE i \in 1..Len(Digits) : Digits[i] = c) - 1

RECURSIVE DigitsVal(_, _)
DigitsVal(s, acc) ==
  IF s = <<>> THEN acc ELSE DigitsVal(Tail(s), 10 * acc + DigitVal(Head(s)))

AllDigits(s) == s # <<>> /\ \A i \in 1..Len(s) : IsDigit(s[i])

\* float(str): surrounding whitespace is ignored, then an optional sign and
\* decimal digits; anything else is a ValueError (NoneV here)
StrToFloat(s) ==
  LET u    == Strip(s)
      neg  == u # <<>> /\ Head(u) = "-"
      body == IF u # <<>> /\ Head(u) \in {"-", "+"} THEN Tail(u) ELSE u
  IN  IF AllDigits(body)
        THEN Num(FRound(IF neg THEN -DigitsVal(body, 0) ELSE DigitsVal(body, 0)))
        ELSE NoneV

\* lines 85-96: float(v) if v is not None else None, with TypeError and
\* ValueError turned into None
ToFloat(v) ==
  CASE v.t = "none" -> NoneV
    [] v.t = "num"  -> Num(FRound(v.n))
    [] v.t = "bool" -> Num(IF v.b THEN 1 ELSE 0)
    [] v.t = "str"  -> StrToFloat(v.s)
    [] v.t = "list" -> NoneV

(* ----------------------------- normalizer ----------------------------- *)
Raised == [t |-> "raise"]

EmptyStr == Str(<<>>)

\* mutant of NameOf: a blank name is kept as it is
NameOf_NoFallback(v, fallback) ==
  LET x == Or(v, EmptyStr)
  IN  IF x.t # "str" THEN Raised ELSE Str(Strip(x.s))

\* lines 77-79: (a or b or "").strip() or fallback; .strip() on a value
\* that is not a str raises AttributeError
NameOf(v, fallback) ==
  LET x == Or(v, EmptyStr)
  IN  IF x.t # "str" THEN Raised
      ELSE IF Strip(x.s) # <<>> THEN Str(Strip(x.s)) ELSE Str(fallback)

CountryOf(props) == NameOf(Get(props, "country"), SinPais)

RegionOf(props) ==
  NameOf(Or(Get(props, "region"), Get(props, "district")), SinRegion)

PlaceOf(props) == NameOf(Or(Get(props, "place"), Get(props, "label")), SinLugar)

\* lines 81-96
LatOf(props) == ToFloat(Or(Get(props, "centroid_lat"), Get(props, "lat")))

LngOf(props) == ToFloat(Or(Get(props, "centroid_lng"), Get(props, "lng")))

AreaOf(props) == ToFloat(Or(Get(props, "area"), Get(props, "area_ha")))

\* the names are evaluated in order, so the first one that raises aborts
NormRaises(props) ==
  Raised \in {CountryOf(props), RegionOf(props), PlaceOf(props)}

\* lines 76-96: the normalized record of one feature
Normalize(props) ==
  [country |-> CountryOf(props).s, region |-> RegionOf(props).s,
   place |-> PlaceOf(props).s, lat |-> LatOf(props), lng |-> LngOf(props),
   area |-> AreaOf(props)]

(* -------------------------------- dict -------------------------------- *)
\* A dict is the sequence of its items, [k, v], in insertion order.
EmptyDict == <<>>

HasKey(d, k) == \E i \in 1..Len(d) : d[i].k = k

IndexOf(d, k) == CHOOSE i \in 1..Len(d) : d[i].k = k

\* d[k]
Lookup(d, k) == d[IndexOf(d, k)].v

\* mutant of SetDefault: the value given replaces the one stored under k
SetDefault_Overwrites(d, k, v) ==
  IF HasKey(d, k) THEN [d EXCEPT ![IndexOf(d, k)].v = v]
  ELSE Append(d, [k |-> k, v |-> v])

\* d.setdefault(k, v): the dict afterwards (the call returns Lookup of it)
SetDefault(d, k, v) == IF HasKey(d, k) THEN d ELSE Append(d, [k |-> k, v |-> v])

\* mutant of Mutate: the object mutated is the last one inserted
Mutate_Last(d, k, v) == [d EXCEPT ![Len(d)].v = v]

\* the dict after the object stored under k has been mutated into v
Mutate(d, k, v) == [d EXCEPT ![IndexOf(d, k)].v = v]

(* -------------------------------- Node -------------------------------- *)
\* mutant of NewNode: a fresh node already counts one record
NewNode_CountOne(name) ==
  [name |-> name, count |-> 1, area |-> 0, bbox |-> NoneV, sum_lng |-> 0,
   sum_lat |-> 0, has_center |-> 0, regions |-> EmptyDict, places |-> EmptyDict]

\* lines 27-36
NewNode(name) ==
  [name |-> name, count |-> 0, area |-> 0, bbox |-> NoneV, sum_lng |-> 0,
   sum_lat |-> 0, has_center |-> 0, regions |-> EmptyDict, places |-> EmptyDict]

\* mutant of BboxWith: the first point is stored as [lat, lng, lat, lng]
BboxWith_Swapped(bbox, lat, lng) ==
  IF bbox = NoneV THEN List(<<lat, lng, lat, lng>>)
  ELSE List(<<Min(bbox.v[1], lng), Min(bbox.v[2], lat),
              Max(bbox.v[3], lng), Max(bbox.v[4], lat)>>)

\* mutant of BboxWith: the box of the first point is kept
BboxWith_FirstWins(bbox, lat, lng) ==
  IF bbox = NoneV THEN List(<<lng, lat, lng, lat>>) ELSE bbox

\* mutant of BboxWith: the box of the last point replaces the one stored
BboxWith_LastWins(bbox, lat, lng) == List(<<lng, lat, lng, lat>>)

\* lines 50-56
BboxWith(bbox, lat, lng) ==
  IF bbox = NoneV THEN List(<<lng, lat, lng, lat>>)
  ELSE List(<<Min(bbox.v[1], lng), Min(bbox.v[2], lat),
              Max(bbox.v[3], lng), Max(bbox.v[4], lat)>>)

\* mutant of update_node: has_center is counted before the coordinates
\* are looked at
update_node_CenterFirst(node, lat, lng, area) ==
  LET n1 == [node EXCEPT !.count = @ + 1, !.has_center = @ + 1]
      n2 == IF area # NoneV THEN [n1 EXCEPT !.area = FAdd(@, area.n)] ELSE n1
  IN  IF lat = NoneV \/ lng = NoneV THEN n2
      ELSE [n2 EXCEPT !.sum_lat = FAdd(@, lat.n),
                      !.sum_lng = FAdd(@, lng.n),
                      !.bbox = BboxWith(@, lat.n, lng.n)]

\* mutant of update_node: the area is added after the coordinates were
\* found present
update_node_AreaAfterCoords(node, lat, lng, area) ==
  LET n1 == [node EXCEPT !.count = @ + 1]
  IN  IF lat = NoneV \/ lng = NoneV THEN n1
      ELSE [n1 EXCEPT !.area = IF area # NoneV THEN FAdd(@, area.n) ELSE @,
                      !.sum_lat = FAdd(@, lat.n),
                      !.sum_lng = FAdd(@, lng.n),
                      !.has_center = @ + 1,
                      !.bbox = BboxWith(@, lat.n, lng.n)]

\* mutant of update_node: only a record with both coordinates is counted
update_node_CountsLocated(node, lat, lng, area) ==
  LET n2 == IF area # NoneV THEN [node EXCEPT !.area = FAdd(@, area.n)] ELSE node
  IN  IF lat = NoneV \/ lng = NoneV THEN n2
      ELSE [n2 EXCEPT !.count = @ + 1,
                      !.sum_lat = FAdd(@, lat.n),
                      !.sum_lng = FAdd(@, lng.n),
                      !.has_center = @ + 1,
                      !.bbox = BboxWith(@, lat.n, lng.n)]

\* lines 39-56
update_node(node, lat, lng, area) ==
  LET n1 == [node EXCEPT !.count = @ + 1]
      n2 == IF area # NoneV THEN [n1 EXCEPT !.area = FAdd(@, area.n)] ELSE n1
  IN  IF lat = NoneV \/ lng = NoneV THEN n2
      ELSE [n2 EXCEPT !.sum_lat = FAdd(@, lat.n),
                      !.sum_lng = FAdd(@, lng.n),
                      !.has_center = @ + 1,
                      !.bbox = BboxWith(@, lat.n, lng.n)]

\* mutant of FoldRecord: the region node is found but not updated
FoldRecord_SkipsRegion(cs, rec) ==
  LET cs1 == SetDefault(cs, rec.country, NewNode(rec.country))
      c0  == Lookup(cs1, rec.country)
      rs1 == SetDefault(c0.regions, rec.region, NewNode(rec.region))
      r0  == Lookup(rs1, rec.region)
      ps1 == SetDefault(r0.places, rec.place, NewNode(rec.place))
      p0  == Lookup(ps1, rec.place)
      p1  == update_node(p0, rec.lat, rec.lng, rec.area)
      r1  == [r0 EXCEPT !.places = Mutate(ps1, rec.place, p1)]
      c1  == [update_node(c0, rec.lat, rec.lng, rec.area)
                EXCEPT !.regions = Mutate(rs1, rec.region, r1)]
  IN  Mutate(cs1, rec.country, c1)

\* mutant of FoldRecord: the place is updated without the coordinates
FoldRecord_PlaceNoCoords(cs, rec) ==
  LET cs1 == SetDefault(cs, rec.country, NewNode(rec.country))
      c0  == Lookup(cs1, rec.country)
      rs1 == SetDefault(c0.regions, rec.region, NewNode(rec.region))
      r0  == Lookup(rs1, rec.region)
      ps1 == SetDefault(r0.places, rec.place, NewNode(rec.place))
      p0  == Lookup(ps1, rec.place)
      p1  == update_node(p0, NoneV, NoneV, rec.area)
      r1  == [update_node(r0, rec.lat, rec.lng, rec.area)
                EXCEPT !.places = Mutate(ps1, rec.place, p1)]
      c1  == [update_node(c0, rec.lat, rec.lng, rec.area)
                EXCEPT !.regions = Mutate(rs1, rec.region, r1)]
  IN  Mutate(cs1, rec.country, c1)

\* mutant of FoldRecord: a record without a region of its own only counts
\* for its country
FoldRecord_CountryOnly(cs, rec) ==
  LET cs1 == SetDefault(cs, rec.country, NewNode(rec.country))
      c0  == Lookup(cs1, rec.country)
      rs1 == SetDefault(c0.regions, rec.region, NewNode(rec.region))
      r0  == Lookup(rs1, rec.region)
      ps1 == SetDefault(r0.places, rec.place, NewNode(rec.place))
      p0  == Lookup(ps1, rec.place)
      p1  == update_node(p0, rec.lat, rec.lng, rec.area)
      r1  == [update_node(r0, rec.lat, rec.lng, rec.area)
                EXCEPT !.places = Mutate(ps1, rec.place, p1)]
      c1  == IF rec.region = SinRegion
               THEN update_node(c0, rec.lat, rec.lng, rec.area)
               ELSE [update_node(c0, rec.lat, rec.lng, rec.area)
                       EXCEPT !.regions = Mutate(rs1, rec.region, r1)]
  IN  Mutate(cs1, rec.country, c1)

\* lines 98-106: get-or-insert the three nodes of the record's path, then
\* update each of them
FoldRecord(cs, rec) ==
  LET cs1 == SetDefault(cs, rec.country, NewNode(rec.country))
      c0  == Lookup(cs1, rec.country)
      rs1 == SetDefault(c0.regions, rec.region, NewNode(rec.region))
      r0  == Lookup(rs1, rec.region)
      ps1 == SetDefault(r0.places, rec.place, NewNode(rec.place))
      p0  == Lookup(ps1, rec.place)
      p1  == update_node(p0, rec.lat, rec.lng, rec.area)
      r1  == [update_node(r0, rec.lat, rec.lng, rec.area)
                EXCEPT !.places = Mutate(ps1, rec.place, p1)]
      c1  == [update_node(c0, rec.lat, rec.lng, rec.area)
                EXCEPT !.regions = Mutate(rs1, rec.region, r1)]
  IN  Mutate(cs1, rec.country, c1)

(* ----------------------------- serializer ----------------------------- *)
\* ord(c) of the characters that occur
CodePoint ==
  ("\t" :> 9) @@ (" " :> 32) @@ ("+" :> 43) @@ ("-" :> 45) @@
  [c \in {Digits[i] : i \in 1..Len(Digits)} |-> 48 + DigitVal(c)] @@
  ("A" :> 65) @@ ("B" :> 66) @@ ("S" :> 83) @@ ("a" :> 97) @@ ("e" :> 101) @@
  ("g" :> 103) @@ ("i" :> 105) @@ ("l" :> 108) @@ ("n" :> 110) @@
  ("p" :> 112) @@ ("r" :> 114) @@ ("s" :> 115) @@ ("u" :> 117) @@
  ("x" :> 120) @@ ("í" :> 237) @@ ("ó" :> 243)

\* a < b for str: lexicographic by code point
RECURSIVE StrLess(_, _)
StrLess(a, b) ==
  IF b = <<>> THEN FALSE
  ELSE IF a = <<>> THEN TRUE
  ELSE IF Head(a) # Head(b) THEN CodePoint[Head(a)] < CodePoint[Head(b)]
  ELSE StrLess(Tail(a), Tail(b))

RECURSIVE InsertItem(_, _)
InsertItem(item, sorted) ==
  IF sorted = <<>> THEN <<item>>
  ELSE IF StrLess(item.k, Head(sorted).k) THEN <<item>> \o sorted
  ELSE <<Head(sorted)>> \o InsertItem(item, Tail(sorted))

\* mutant of SortedItems: the items are left in insertion order
SortedItems_Unsorted(d) == d

\* sorted(d.items()): keys are unique, so the items compare by key alone
RECURSIVE SortedItems(_)
SortedItems(d) ==
  IF d = <<>> THEN <<>>
  ELSE InsertItem(d[Len(d)], SortedItems(SubSeq(d, 1, Len(d) - 1)))

\* mutant of NodeData: the centroid sums are divided by count
NodeData_MeanOverCount(node) ==
  [name |-> node.name, count |-> node.count, area |-> Round6(node.area)]
  @@ (IF Truthy(node.bbox)
        THEN "bbox" :> [i \in 1..Len(node.bbox.v) |-> Round6(node.bbox.v[i])]
        ELSE <<>>)
  @@ (IF node.has_center # 0
        THEN "center" :> <<Round6(FDiv(node.sum_lng, node.count)),
                           Round6(FDiv(node.sum_lat, node.count))>>
        ELSE <<>>)

\* lines 109-120: the keys every level carries
NodeData(node) ==
  [name |-> node.name, count |-> node.count, area |-> Round6(node.area)]
  @@ (IF Truthy(node.bbox)
        THEN "bbox" :> [i \in 1..Len(node.bbox.v) |-> Round6(node.bbox.v[i])]
        ELSE <<>>)
  @@ (IF node.has_center # 0
        THEN "center" :> <<Round6(FDiv(node.sum_lng, node.has_center)),
                           Round6(FDiv(node.sum_lat, node.has_center))>>
        ELSE <<>>)

\* serialize(node, "place")
SerializePlace(node) == NodeData(node)

\* serialize(node, "region"), lines 127-131
SerializeRegion(node) ==
  NodeData(node) @@
  ("places" :> [i \in 1..Len(node.places) |->
                  [k |-> SortedItems(node.places)[i].k,
                   v |-> SerializePlace(SortedItems(node.places)[i].v)]])

\* serialize(node, "country"), lines 122-126
SerializeCountry(node) ==
  NodeData(node) @@
  ("regions" :> [i \in 1..Len(node.regions) |->
                   [k |-> SortedItems(node.regions)[i].k,
                    v |-> SerializeRegion(SortedItems(node.regions)[i].v)]])

\* lines 135-142: the document build_filters returns
Document(cs) ==
  [generated_from |-> "piscinas.pmtiles", layer |-> "piscinas_merged",
   countries |-> [i \in 1..Len(cs) |->
                    [k |-> SortedItems(cs)[i].k,
                     v |-> SerializeCountry(SortedItems(cs)[i].v)]]]

(* ------------------------------- inputs ------------------------------- *)
LAYER_NAME == "piscinas_merged"

A == <<"A">>

B == <<"B">>

\* Property mappings of features: only the keys present are in the domain.
F1 == [country |-> Str(A), region |-> Str(A), place |-> Str(A),
       centroid_lat |-> Num(1), centroid_lng |-> Num(2), area |-> Num(1)]

F2 == [country |-> Str(A), region |-> Str(A), label |-> Str(<<" ", "B">>),
       lat |-> Num(-1), lng |-> Str(<<"3">>), area_ha |-> Num(2)]

F3 == [country |-> Str(A), district |-> Str(B), place |-> Str(A),
       area |-> Str(<<"x">>)]

F4 == [country |-> Str(A), place |-> Str(A), centroid_lat |-> Num(2),
       area |-> Num(16)]

F5 == [region |-> Str(<<" ">>), district |-> Str(A),
       centroid_lat |-> Num(0), lat |-> Num(2), lng |-> Num(-2),
       area |-> Num(-1)]

F6 == [country |-> Num(5), region |-> Str(A), place |-> Str(A),
       lat |-> Num(1), lng |-> Num(1)]

Features == {F1, F2, F3, F4, F5, F6}

RECURSIVE SeqsUpTo(_, _)
SeqsUpTo(X, n) ==
  IF n = 0 THEN {<<>>}
  ELSE SeqsUpTo(X, n - 1) \cup
       {Append(q, x) : q \in {r \in SeqsUpTo(X, n - 1) : Len(r) = n - 1}, x \in X}

\* A raw tile: whether its payload decompresses and decodes, and the
\* features of the one layer it holds.
Tile(valid, layer, feats) == [valid |-> valid, layer |-> layer, feats |-> feats]

\* archives of several small tiles, some of them corrupt or without the layer
Tiles ==
  {Tile(TRUE, LAYER_NAME, fs) : fs \in SeqsUpTo({F1, F5, F6}, MaxFeat)} \cup
  {Tile(FALSE, LAYER_NAME, <<F1>>), Tile(FALSE, LAYER_NAME, <<F5>>),
   Tile(FALSE, "other", <<F1>>), Tile(TRUE, "other", <<F5>>)}

\* archives of one tile that decodes and holds the layer
OneTile == {Tile(TRUE, LAYER_NAME, fs) : fs \in SeqsUpTo(Features, MaxRecords)}

(* ---------------------------- state machine --------------------------- *)
VARIABLES
  seen,       \* the raw tiles all_tiles has yielded so far, in order
  features,   \* the features of the current layer not yet visited
  countries,  \* the dict of country nodes
  pc,         \* "tiles" | "features" | "done" | "raised"
  out         \* what build_filters returned, NoneV before

vars == <<seen, features, countries, pc, out>>

\* line 67: mapbox_vector_tile.decode(gzip.decompress(raw_tile))
Decodes(raw) == raw.valid

\* line 71: tile.get(LAYER_NAME)
LayerOf(raw) == IF raw.layer = LAYER_NAME THEN raw.feats ELSE <<>>

HasLayer(raw) == raw.layer = LAYER_NAME

RECURSIVE Visited(_)
\* the features of the layers the loop has entered, in order
Visited(ts) ==
  IF ts = <<>> THEN <<>>
  ELSE Visited(SubSeq(ts, 1, Len(ts) - 1)) \o
       (IF Decodes(ts[Len(ts)]) /\ HasLayer(ts[Len(ts)])
          THEN LayerOf(ts[Len(ts)]) ELSE <<>>)

\* all_tiles yields raw, one of at most cap tiles of the archive
Yields(cap, raw) ==
  /\ pc = "tiles"
  /\ Len(seen) < cap
  /\ seen' = Append(seen, raw)

Init ==
  /\ seen = <<>>
  /\ features = <<>>
  /\ countries = EmptyDict
  /\ pc = "tiles"
  /\ out = NoneV

\* mutant of DecodeFails: the decoder's exception is not caught
DecodeFails_Propagates(T, cap) ==
  \E raw \in T :
    /\ pc = "tiles"
    /\ Len(seen) < cap
    /\ ~Decodes(raw)
    /\ seen' = Append(seen, raw)
    /\ pc' = "raised"
    /\ UNCHANGED <<features, countries, out>>

\* lines 66-69: the payload does not decode, the tile is skipped
DecodeFails(T, cap) ==
  \E raw \in T :
    /\ Yields(cap, raw)
    /\ ~Decodes(raw)
    /\ UNCHANGED <<features, countries, pc, out>>

\* lines 71-73: the tile has no layer of that name
MissingLayer(T, cap) ==
  \E raw \in T :
    /\ Yields(cap, raw)
    /\ Decodes(raw)
    /\ ~HasLayer(raw)
    /\ UNCHANGED <<features, countries, pc, out>>

\* line 75: the loop over the layer's features starts
OpenLayer(T, cap) ==
  \E raw \in T :
    /\ Yields(cap, raw)
    /\ Decodes(raw)
    /\ HasLayer(raw)
    /\ features' = LayerOf(raw)
    /\ pc' = "features"
    /\ UNCHANGED <<countries, out>>

\* lines 76-106: one feature is normalized and folded into the tree
FoldFeature ==
  /\ pc = "features"
  /\ features # <<>>
  /\ ~NormRaises(Head(features))
  /\ countries' = FoldRecord(countries, Normalize(Head(features)))
  /\ features' = Tail(features)
  /\ UNCHANGED <<seen, pc, out>>

\* lines 77-79: .strip() raises AttributeError, which nothing catches
FeatureRaises ==
  /\ pc = "features"
  /\ features # <<>>
  /\ NormRaises(Head(features))
  /\ pc' = "raised"
  /\ UNCHANGED <<seen, features, countries, out>>

\* line 75: the layer's features are exhausted
EndLayer ==
  /\ pc = "features"
  /\ features = <<>>
  /\ pc' = "tiles"
  /\ UNCHANGED <<seen, features, countries, out>>

\* lines 135-142: all_tiles is exhausted, the document is built
Finish ==
  /\ pc = "tiles"
  /\ out' = Document(countries)
  /\ pc' = "done"
  /\ UNCHANGED <<seen, features, countries>>

Next ==
  \/ DecodeFails(Tiles, MaxTiles)
  \/ MissingLayer(Tiles, MaxTiles)
  \/ OpenLayer(Tiles, MaxTiles)
  \/ FoldFeature
  \/ FeatureRaises
  \/ EndLayer
  \/ Finish

\* runs over archives of up to MaxTiles tiles of up to MaxFeat features
Spec == Init /\ [][Next]_vars

NextOneTile ==
  \/ OpenLayer(OneTile, 1)
  \/ FoldFeature
  \/ FeatureRaises
  \/ EndLayer
  \/ Finish

\* runs over archives of one tile of up to MaxRecords features
SpecOneTile == Init /\ [][NextOneTile]_vars

(* ------------------------- reading the state -------------------------- *)
\* the normalized records folded so far, in fold order
Log ==
  [i \in 1..(Len(Visited(seen)) - Len(features)) |-> Normalize(Visited(seen)[i])]

Items(d) == {d[i] : i \in 1..Len(d)}

\* every node of the tree with the names on its path
NodesOf(cs) ==
  {[path |-> <<c.k>>, node |-> c.v] : c \in Items(cs)} \cup
  UNION {{[path |-> <<c.k, r.k>>, node |-> r.v] : r \in Items(c.v.regions)} :
           c \in Items(cs)} \cup
  UNION {UNION {{[path |-> <<c.k, r.k, p.k>>, node |-> p.v] :
                   p \in Items(r.v.places)} : r \in Items(c.v.regions)} :
           c \in Items(cs)}

Nodes == NodesOf(countries)

RECURSIVE SumCount(_)
SumCount(d) == IF d = <<>> THEN 0 ELSE Head(d).v.count + SumCount(Tail(d))

\* C1: in every state of the fold, each country's count is the sum of the
\* counts of its regions, and each region's count is the sum of the counts
\* of its places.
C1_Additivity ==
  \A c \in Items(countries) :
    /\ c.v.count = SumCount(c.v.regions)
    /\ \A r \in Items(c.v.regions) : r.v.count = SumCount(r.v.places)

\* a country with two regions, one of which has two places
C1_Witness ==
  \E c \in Items(countries) :
    /\ Len(c.v.regions) >= 2
    /\ \E r \in Items(c.v.regions) : Len(r.v.places) >= 2
    /\ c.v.count = 3

\* C2: every node at every level has count >= has_center, and a bbox
\* exactly when has_center > 0.
C2_CountAndBbox ==
  \A x \in Nodes :
    /\ x.node.count >= x.node.has_center
    /\ (x.node.bbox # NoneV) <=> (x.node.has_center > 0)

\* two nodes of one tree: one that records with and without coordinates
\* went through, one that never received coordinates
C2_Witness ==
  /\ \E x \in Nodes : x.node.count > x.node.has_center /\ x.node.has_center > 0
  /\ \E x \in Nodes : x.node.count > 0 /\ x.node.has_center = 0

(* --------------------- what the records call for ---------------------- *)
OnPath(rec, path) ==
  /\ rec.country = path[1]
  /\ Len(path) >= 2 => rec.region = path[2]
  /\ Len(path) >= 3 => rec.place = path[3]

HasCoords(rec) == rec.lat # NoneV /\ rec.lng # NoneV

\* positions in log of the records routed to the node at path
Routed(log, path) == {i \in 1..Len(log) : OnPath(log[i], path)}

\* ... of those that supplied both coordinates
Located(log, path) == {i \in Routed(log, path) : HasCoords(log[i])}

MinOf(X) == CHOOSE x \in X : \A y \in X : x <= y

MaxOf(X) == CHOOSE x \in X : \A y \in X : x >= y

\* the float sum of val[i] over the positions I, taken in fold order
RECURSIVE FSumUpTo(_, _, _)
FSumUpTo(val, I, n) ==
  IF n = 0 THEN 0
  ELSE IF n \in I THEN FAdd(FSumUpTo(val, I, n - 1), val[n])
  ELSE FSumUpTo(val, I, n - 1)

FSum(val, I) == FSumUpTo(val, I, Len(val))

Lats(log) == [i \in 1..Len(log) |-> IF log[i].lat = NoneV THEN 0 ELSE log[i].lat.n]

Lngs(log) == [i \in 1..Len(log) |-> IF log[i].lng = NoneV THEN 0 ELSE log[i].lng.n]

Areas(log) ==
  [i \in 1..Len(log) |-> IF log[i].area = NoneV THEN 0 ELSE log[i].area.n]

BoxOf(log, I) ==
  IF I = {} THEN NoneV
  ELSE List(<<MinOf({log[i].lng.n : i \in I}), MinOf({log[i].lat.n : i \in I}),
              MaxOf({log[i].lng.n : i \in I}), MaxOf({log[i].lat.n : i \in I})>>)

PathsOf(rec) ==
  {<<rec.country>>, <<rec.country, rec.region>>,
   <<rec.country, rec.region, rec.place>>}

\* C3: each node's bbox is [min lng, min lat, max lng, max lat] over exactly
\* the records routed to it that supplied both coordinates (none: no bbox);
\* only those records enter has_center and the centroid sums, while every
\* routed record is counted and adds its area if it has one.
C3_BboxOverLocated ==
  /\ \A i \in 1..Len(Log) : PathsOf(Log[i]) \subseteq {x.path : x \in Nodes}
  /\ \A x \in Nodes :
       LET R == Routed(Log, x.path)
           L == Located(Log, x.path)
       IN  /\ x.node.bbox = BoxOf(Log, L)
           /\ x.node.has_center = Cardinality(L)
           /\ x.node.sum_lng = FSum(Lngs(Log), L)
           /\ x.node.sum_lat = FSum(Lats(Log), L)
           /\ x.node.count = Cardinality(R)
           /\ x.node.area = FSum(Areas(Log), {i \in R : Log[i].area # NoneV})

\* a node that received a record with one coordinate only and an area, and
\* two records with both coordinates that differ in lat and in lng
C3_Witness ==
  \E x \in Nodes :
    /\ \E i \in Routed(Log, x.path) :
         /\ (Log[i].lat = NoneV) # (Log[i].lng = NoneV)
         /\ Log[i].area # NoneV
    /\ \E i, j \in Located(Log, x.path) :
         Log[i].lat.n < Log[j].lat.n /\ Log[i].lng.n > Log[j].lng.n
    /\ x.node.bbox # NoneV

\* every serialized node of a document with the names on its path
OutNodesOf(doc) ==
  {[path |-> <<c.k>>, data |-> c.v] : c \in Items(doc.countries)} \cup
  UNION {{[path |-> <<c.k, r.k>>, data |-> r.v] : r \in Items(c.v.regions)} :
           c \in Items(doc.countries)} \cup
  UNION {UNION {{[path |-> <<c.k, r.k, p.k>>, data |-> p.v] :
                   p \in Items(r.v.places)} : r \in Items(c.v.regions)} :
           c \in Items(doc.countries)}

\* [mean lng, mean lat] as the serializer rounds it
CenterOf(log, I) ==
  <<Round6(FDiv(FSum(Lngs(log), I), Cardinality(I))),
    Round6(FDiv(FSum(Lats(log), I), Cardinality(I)))>>

\* C4: in the returned document every node of the tree is serialized; a
\* node carries "center" and "bbox" exactly when some record routed to it
\* supplied both coordinates, and its center is the rounded quotient of the
\* coordinate sums over exactly those records by their number.
C4_CenterOverLocated ==
  pc = "done" =>
    /\ {x.path : x \in OutNodesOf(out)} = {x.path : x \in Nodes}
    /\ \A x \in OutNodesOf(out) :
         LET L == Located(Log, x.path)
         IN  /\ ("center" \in DOMAIN x.data) <=> (L # {})
             /\ ("bbox" \in DOMAIN x.data) <=> (L # {})
             /\ L # {} => x.data.center = CenterOf(Log, L)

\* a document with a node whose center averages two of its three records,
\* and a node with neither center nor bbox
C4_Witness ==
  /\ pc = "done"
  /\ \E x \in OutNodesOf(out) :
       /\ "center" \in DOMAIN x.data
       /\ Cardinality(Located(Log, x.path)) = 2
       /\ x.data.count = 3
       /\ x.data.center # <<0, 0>>
  /\ \E x \in OutNodesOf(out) : DOMAIN x.data = {"name", "count", "area"}

(* ---------------------------- fold order ------------------------------ *)
\* the tree after folding the records of log, in order, into cs
RECURSIVE FoldAll(_, _)
FoldAll(cs, log) ==
  IF log = <<>> THEN cs ELSE FoldAll(FoldRecord(cs, Head(log)), Tail(log))

Perms(n) == {p \in [1..n -> 1..n] : \A i, j \in 1..n : p[i] = p[j] => i = j}

Reorder(log, p) == [i \in 1..Len(log) |-> log[p[i]]]

\* the statistics of every node, by path, without the order of insertion
StatsOf(cs) ==
  {[path |-> x.path, count |-> x.node.count, area |-> x.node.area,
    bbox |-> x.node.bbox, sum_lng |-> x.node.sum_lng,
    sum_lat |-> x.node.sum_lat, has_center |-> x.node.has_center] :
     x \in NodesOf(cs)}

\* ... those that no float addition enters
CountsOf(cs) ==
  {[path |-> x.path, count |-> x.node.count, bbox |-> x.node.bbox,
    has_center |-> x.node.has_center] : x \in NodesOf(cs)}

RECURSIVE SumOver(_, _)
SumOver(val, I) ==
  IF I = {} THEN 0
  ELSE LET i == CHOOSE i \in I : TRUE IN val[i] + SumOver(val, I \ {i})

\* no sum of some of the values needs rounding
SumsExact(val) ==
  \A I \in SUBSET (1..Len(val)) : FRound(SumOver(val, I)) = SumOver(val, I)

NoRounding(log) ==
  SumsExact(Areas(log)) /\ SumsExact(Lats(log)) /\ SumsExact(Lngs(log))

\* C5 as stated: folding the records in any other order yields the same
\* statistics at every node and the same document.
C5_AnyOrderSameTree ==
  \A p \in Perms(Len(Log)) :
    LET cs == FoldAll(EmptyDict, Reorder(Log, p))
    IN  StatsOf(cs) = StatsOf(countries) /\ Document(cs) = Document(countries)

\* C5 (amended): folding the records in any other order yields the same
\* nodes with the same count, bbox and has_center; area, the centroid sums
\* and the document are the same as well when no sum of the records'
\* values needs rounding.
C5_AnyOrderSameCounts ==
  \A p \in Perms(Len(Log)) :
    LET cs == FoldAll(EmptyDict, Reorder(Log, p))
    IN  /\ CountsOf(cs) = CountsOf(countries)
        /\ NoRounding(Log) =>
             StatsOf(cs) = StatsOf(countries) /\ Document(cs) = Document(countries)

\* three records folded, two with different coordinates into one node and
\* creating nodes in an order that is not the sorted one, no sum rounded
C5_Witness ==
  /\ Len(Log) = 3
  /\ NoRounding(Log)
  /\ \E x \in Nodes : x.node.has_center = 2 /\ x.node.bbox.v[1] < x.node.bbox.v[3]
  /\ \E i \in 1..Len(countries) - 1 : StrLess(countries[i + 1].k, countries[i].k)

(* --------------------------- corrupt tiles ---------------------------- *)
RECURSIVE Intact(_)
\* the archive without the tiles whose payload is corrupt
Intact(ts) ==
  IF ts = <<>> THEN <<>>
  ELSE IF Head(ts).valid THEN <<Head(ts)>> \o Intact(Tail(ts))
  ELSE Intact(Tail(ts))

RECURSIVE LayerFeatures(_)
\* the features of the aggregated layer in the tiles ts, in order
LayerFeatures(ts) ==
  IF ts = <<>> THEN <<>>
  ELSE (IF Head(ts).layer = LAYER_NAME THEN Head(ts).feats ELSE <<>>)
       \o LayerFeatures(Tail(ts))

\* the tree a run over the archive without its corrupt tiles has built when
\* it is left with the same features of its current tile
TreeOfIntact ==
  LET fs == LayerFeatures(Intact(seen))
  IN  FoldAll(EmptyDict, [i \in 1..(Len(fs) - Len(features)) |-> Normalize(fs[i])])

\* C6: a tile whose payload does not decode is skipped and the run goes on:
\* the tree is always, and the document at the end, the one of the same
\* archive without its corrupt tiles, and an exception leaves the run only
\* from a feature of a tile that decoded.
C6_CorruptTileSkipped ==
  /\ countries = TreeOfIntact
  /\ pc = "done" => out = Document(TreeOfIntact)
  /\ (seen # <<>> /\ ~seen[Len(seen)].valid) => pc \in {"tiles", "done"}
  /\ pc = "raised" => seen[Len(seen)].valid /\ NormRaises(Head(features))

\* a finished run over a corrupt tile that holds a feature of the layer,
\* followed by a tile that decodes and whose feature was folded
C6_Witness ==
  /\ pc = "done"
  /\ Len(seen) = 2
  /\ ~seen[1].valid /\ seen[1].layer = LAYER_NAME /\ seen[1].feats # <<>>
  /\ seen[2].valid /\ seen[2].layer = LAYER_NAME
  /\ seen[2].feats # <<>> /\ seen[2].feats # seen[1].feats
  /\ Len(out.countries) = 1

(* ------------------- what the normalizer is said to do ---------------- *)
\* the features folded so far, in fold order
Folded == SubSeq(Visited(seen), 1, Len(Visited(seen)) - Len(features))

\* C7: normalizing a feature never raises, whatever the values of its
\* properties are, so no run is aborted by a feature.
C7_NormalizeNeverRaises == pc # "raised"

RECURSIVE FirstNonBlank(_, _, _)
\* the trimmed value of the first key of keys whose value is a str that is
\* not blank, else the fallback
FirstNonBlank(props, keys, fallback) ==
  IF keys = <<>> THEN fallback
  ELSE LET v == Get(props, Head(keys))
       IN  IF v.t = "str" /\ Strip(v.s) # <<>> THEN Strip(v.s)
           ELSE FirstNonBlank(props, Tail(keys), fallback)

NamedPaths(props) ==
  PathsOf([country |-> FirstNonBlank(props, <<"country">>, SinPais),
           region |-> FirstNonBlank(props, <<"region", "district">>, SinRegion),
           place |-> FirstNonBlank(props, <<"place", "label">>, SinLugar)])

\* C8: every folded feature is filed under the trimmed value of the first
\* candidate key of each level whose value is not blank, the fallback
\* sentinel being used only when no candidate has one.
C8_FirstNonBlankName ==
  {x.path : x \in Nodes} = UNION {NamedPaths(Folded[i]) : i \in 1..Len(Folded)}

RECURSIVE FirstPresent(_, _)
\* float() of the value of the first key of keys that is present, None if
\* there is none or the value cannot be coerced
FirstPresent(props, keys) ==
  IF keys = <<>> THEN NoneV
  ELSE IF Head(keys) \in DOMAIN props THEN ToFloat(props[Head(keys)])
  ELSE FirstPresent(props, Tail(keys))

\* C9: the tree is the one obtained by folding, for every feature, the
\* coerced value of the first present candidate key of lat, lng and area
\* (a zero included), under the names the normalizer gave it.
C9_FirstPresentNumber ==
  countries =
    FoldAll(EmptyDict,
            [i \in 1..Len(Folded) |->
               [Normalize(Folded[i]) EXCEPT
                  !.lat = FirstPresent(Folded[i], <<"centroid_lat", "lat">>),
                  !.lng = FirstPresent(Folded[i], <<"centroid_lng", "lng">>),
                  !.area = FirstPresent(Folded[i], <<"area", "area_ha">>)]])

\* C10: the area of every node is >= 0, whatever numeric values the area
\* properties hold.
C10_AreaNonNegative == \A x \in Nodes : x.node.area >= 0

(* --------------------------------- area ------------------------------- *)
\* positions in log of the records routed to path that supplied an area
Sized(log, path) == {i \in Routed(log, path) : log[i].area # NoneV}

\* C11 as stated: every node's area is the sum of the areas of the records
\* routed to it that supplied one, and its count the number of records
\* routed to it.
C11_AreaIsSum ==
  \A x \in Nodes :
    /\ x.node.area = SumOver(Areas(Log), Sized(Log, x.path))
    /\ x.node.count = Cardinality(Routed(Log, x.path))

\* C11 (amended): every node's area is the float sum, taken in fold order,
\* of the areas of the records routed to it that supplied one: 0 when there
\* is none, and their sum when no sum of the values needs rounding. Records
\* without an area are counted all the same.
C11_AreaIsFloatSum ==
  \A x \in Nodes :
    LET Z == Sized(Log, x.path)
    IN  /\ x.node.area = FSum(Areas(Log), Z)
        /\ Z = {} => x.node.area = 0
        /\ SumsExact(Areas(Log)) => x.node.area = SumOver(Areas(Log), Z)
        /\ x.node.count = Cardinality(Routed(Log, x.path))

\* a node three records went through, one of them without an area, and a
\* node that no area ever reached
C11_Witness ==
  /\ \E x \in Nodes :
       /\ x.node.count = 3
       /\ Cardinality(Sized(Log, x.path)) = 2
       /\ x.node.area = 3
  /\ \E x \in Nodes : x.node.count > 0 /\ Sized(Log, x.path) = {}

(* ------------------------------ fallbacks ----------------------------- *)
Lacks(props, keys) == \A k \in keys : k \notin DOMAIN props

Sentinels == {SinPais, SinRegion, SinLugar}

\* C12: a folded feature that has no country property is filed under
\* 'Sin país', one with neither region nor district under 'Sin región', one
\* with neither place nor label under 'Sin lugar', each level on its own;
\* and a node named by a sentinel holds the count, area, bbox and centroid
\* sums that the update rule gives any node for the records routed to it.
C12_FallbackLabel ==
  /\ \A i \in 1..Len(Folded) :
       \E x \in Nodes :
         /\ Len(x.path) = 3
         /\ x.path \in PathsOf(Log[i])
         /\ Lacks(Folded[i], {"country"}) => x.path[1] = SinPais
         /\ Lacks(Folded[i], {"region", "district"}) => x.path[2] = SinRegion
         /\ Lacks(Folded[i], {"place", "label"}) => x.path[3] = SinLugar
  /\ \A x \in Nodes :
       x.path[Len(x.path)] \in Sentinels =>
         LET R == Routed(Log, x.path)
             L == Located(Log, x.path)
         IN  /\ x.node.count = Cardinality(R)
             /\ x.node.area = FSum(Areas(Log), Sized(Log, x.path))
             /\ x.node.has_center = Cardinality(L)
             /\ x.node.bbox = BoxOf(Log, L)
             /\ x.node.sum_lng = FSum(Lngs(Log), L)
             /\ x.node.sum_lat = FSum(Lats(Log), L)

\* a feature that lacks only its region, filed under 'Sin región' beside a
\* named region of the same country, and a feature without country and
\* place, whose 'Sin país' node has a bbox
C12_Witness ==
  /\ \E i \in 1..Len(Folded) :
       /\ Lacks(Folded[i], {"region", "district"})
       /\ ~Lacks(Folded[i], {"country"}) /\ ~Lacks(Folded[i], {"place", "label"})
       /\ \E x \in Nodes : x.path = <<Log[i].country, SinRegion>>
       /\ \E x \in Nodes : x.path = <<Log[i].country, A>>
  /\ \E x \in Nodes :
       x.path = <<SinPais>> /\ x.node.count = 1 /\ x.node.bbox # NoneV

(* ------------------------------ key order ----------------------------- *)
\* the keys of a serialized child mapping are in ascending order
Ascending(items) ==
  \A i \in 1..Len(items) - 1 : StrLess(items[i].k, items[i + 1].k)

\* the keys of a document, level by level, in the order they are emitted
KeysOfDoc(doc) ==
  [i \in 1..Len(doc.countries) |->
     [k |-> doc.countries[i].k,
      regions |->
        [j \in 1..Len(doc.countries[i].v.regions) |->
           [k |-> doc.countries[i].v.regions[j].k,
            places |->
              [l \in 1..Len(doc.countries[i].v.regions[j].v.places) |->
                 doc.countries[i].v.regions[j].v.places[l].k]]]]]

SortedAtEveryLevel(doc) ==
  /\ Ascending(doc.countries)
  /\ \A c \in Items(doc.countries) :
       /\ Ascending(c.v.regions)
       /\ \A r \in Items(c.v.regions) : Ascending(r.v.places)

\* C13 as stated: the document lists the children of every level in
\* ascending order of their names, and folding the same records in any
\* other order gives the identical document.
C13_SortedSoIdentical ==
  pc = "done" =>
    /\ SortedAtEveryLevel(out)
    /\ \A p \in Perms(Len(Log)) :
         Document(FoldAll(EmptyDict, Reorder(Log, p))) = out

\* C13 (amended): the document lists the children of every level in
\* ascending order of their names, whatever the order the nodes were
\* created in; folding the same records in the same order gives the
\* identical document, and in any other order a document with the same keys
\* in the same order, identical when no sum of the values needs rounding.
C13_SortedKeys ==
  pc = "done" =>
    /\ SortedAtEveryLevel(out)
    /\ out = Document(FoldAll(EmptyDict, Log))
    /\ \A p \in Perms(Len(Log)) :
         LET doc == Document(FoldAll(EmptyDict, Reorder(Log, p)))
         IN  /\ KeysOfDoc(doc) = KeysOfDoc(out)
             /\ NoRounding(Log) => doc = out

\* a document of a tree whose countries, and the regions of one country,
\* were created in descending order of their names
C13_Witness ==
  /\ pc = "done"
  /\ Len(countries) >= 2 /\ StrLess(countries[2].k, countries[1].k)
  /\ \E c \in Items(countries) :
       Len(c.v.regions) >= 2 /\ StrLess(c.v.regions[2].k, c.v.regions[1].k)
  /\ Len(out.countries) = Len(countries)

(* ---------------------- a country without a region -------------------- *)
\* positions of the folded features that have a country and no region
CountryNoRegion ==
  {i \in 1..Len(Folded) :
     "country" \in DOMAIN Folded[i] /\ Lacks(Folded[i], {"region", "district"})}

\* C14 as stated: a feature with a country and no region is counted by its
\* country, and no region node is created for it: the regions of a country
\* are those its features name.
C14_NoRegionNode ==
  \A c \in Items(countries) :
    /\ c.v.count = Cardinality(Routed(Log, <<c.k>>))
    /\ {r.k : r \in Items(c.v.regions)} =
         {Log[i].region : i \in Routed(Log, <<c.k>>) \ CountryNoRegion}

\* C14 (amended): a feature with a country and no region is counted by its
\* country and is filed under the region 'Sin región' of that country,
\* which is created for it if need be and counts it too, as does a place
\* under that region.
C14_FallbackRegionNode ==
  /\ \A c \in Items(countries) : c.v.count = Cardinality(Routed(Log, <<c.k>>))
  /\ \A i \in CountryNoRegion :
       \E r, p \in Nodes :
         /\ r.path = <<Log[i].country, SinRegion>>
         /\ r.node.count = Cardinality(Routed(Log, r.path))
         /\ i \in Routed(Log, r.path)
         /\ p.path = <<Log[i].country, SinRegion, Log[i].place>>
         /\ p.node.count = Cardinality(Routed(Log, p.path))

\* a country counting two features, one of which has no region and is the
\* only one under 'Sin región'
C14_Witness ==
  \E i \in CountryNoRegion :
    /\ \E c \in Nodes : c.path = <<Log[i].country>> /\ c.node.count = 2
    /\ \E r \in Nodes :
         r.path = <<Log[i].country, SinRegion>> /\ r.node.count = 1

(* --------------------------- partial trees ---------------------------- *)
\* the records of log at the positions I, in their order
RECURSIVE PickUpTo(_, _, _)
PickUpTo(log, I, n) ==
  IF n = 0 THEN <<>>
  ELSE IF n \in I THEN Append(PickUpTo(log, I, n - 1), log[n])
  ELSE PickUpTo(log, I, n - 1)

Pick(log, I) == PickUpTo(log, I, Len(log))

\* union of two boxes, a box present on one side only being kept
MergeBbox(a, b) ==
  IF a = NoneV THEN b
  ELSE IF b = NoneV THEN a
  ELSE List(<<Min(a.v[1], b.v[1]), Min(a.v[2], b.v[2]),
              Max(a.v[3], b.v[3]), Max(a.v[4], b.v[4])>>)

\* the statistics of the node-by-node merge of the trees a and b
MergedStats(a, b) ==
  LET SA == StatsOf(a)
      SB == StatsOf(b)
      InA(path) == \E x \in SA : x.path = path
      InB(path) == \E x \in SB : x.path = path
      AtA(path) == CHOOSE x \in SA : x.path = path
      AtB(path) == CHOOSE x \in SB : x.path = path
  IN  {IF InA(path) /\ InB(path)
         THEN [path |-> path,
               count |-> AtA(path).count + AtB(path).count,
               area |-> FAdd(AtA(path).area, AtB(path).area),
               bbox |-> MergeBbox(AtA(path).bbox, AtB(path).bbox),
               sum_lng |-> FAdd(AtA(path).sum_lng, AtB(path).sum_lng),
               sum_lat |-> FAdd(AtA(path).sum_lat, AtB(path).sum_lat),
               has_center |-> AtA(path).has_center + AtB(path).has_center]
         ELSE IF InA(path) THEN AtA(path) ELSE AtB(path) :
       path \in {x.path : x \in SA \cup SB}}

\* the merge of the trees of the two parts of log split at the positions I
SplitMerge(log, I) ==
  MergedStats(FoldAll(EmptyDict, Pick(log, I)),
              FoldAll(EmptyDict, Pick(log, (1..Len(log)) \ I)))

\* the statistics that no float addition enters
Exact(S) ==
  {[path |-> x.path, count |-> x.count, bbox |-> x.bbox,
    has_center |-> x.has_center] : x \in S}

\* C15 as stated: however the records are split into two parts, merging
\* the trees of the parts node by node yields exactly the statistics of the
\* tree folded from all the records in sequence.
C15_MergeIsFold ==
  \A I \in SUBSET (1..Len(Log)) : SplitMerge(Log, I) = StatsOf(countries)

\* C15 (amended): however the records are split into two parts, merging the
\* trees of the parts node by node yields the nodes of the sequential tree
\* with the same count, has_center and bbox; area and the centroid sums are
\* the same as well when no sum of the records' values needs rounding.
C15_MergeIsFoldUpToRounding ==
  \A I \in SUBSET (1..Len(Log)) :
    /\ Exact(SplitMerge(Log, I)) = Exact(StatsOf(countries))
    /\ NoRounding(Log) => SplitMerge(Log, I) = StatsOf(countries)

\* three records that split into parts sharing a node to which each part
\* gave a different bbox, with a node that only one part has, and that
\* split into parts sharing a node to which only one part gave a bbox; the
\* merge is the sequential tree
C15_Witness ==
  /\ Len(Log) = 3
  /\ \E I \in SUBSET (1..Len(Log)) :
       LET SA == StatsOf(FoldAll(EmptyDict, Pick(Log, I)))
           SB == StatsOf(FoldAll(EmptyDict, Pick(Log, (1..Len(Log)) \ I)))
       IN  /\ \E x \in SA, y \in SB :
                /\ x.path = y.path
                /\ x.bbox # NoneV /\ y.bbox # NoneV /\ x.bbox # y.bbox
           /\ \E x \in SA : \A y \in SB : x.path # y.path
           /\ SplitMerge(Log, I) = StatsOf(countries)
  /\ \E I \in SUBSET (1..Len(Log)) :
       LET SA == StatsOf(FoldAll(EmptyDict, Pick(Log, I)))
           SB == StatsOf(FoldAll(EmptyDict, Pick(Log, (1..Len(Log)) \ I)))
       IN  /\ \E x \in SA, y \in SB :
                x.path = y.path /\ x.bbox = NoneV /\ y.bbox # NoneV
           /\ SplitMerge(Log, I) = StatsOf(countries)

(* ---------------------------- get-or-insert --------------------------- *)
\* the statistics of a node, without its children
Fields(node) ==
  [name |-> node.name, count |-> node.count, area |-> node.area,
   bbox |-> node.bbox, sum_lng |-> node.sum_lng, sum_lat |-> node.sum_lat,
   has_center |-> node.has_center]

Keys(d) == [i \in 1..Len(d) |-> d[i].k]

IsPrefix(s, t) == Len(s) <= Len(t) /\ SubSeq(t, 1, Len(s)) = s

UniqueKeys(d) == \A i, j \in 1..Len(d) : d[i].k = d[j].k => i = j

\* this step takes a feature of the layer and folds it
Folds == features # <<>> /\ features' = Tail(features)

\* the record it folds
Rec == Normalize(Head(features))

\* C16: when a record is folded, every node on its path that exists
\* already is the node updated: its statistics afterwards are those of
\* update_node on its statistics before, and its children before are still
\* its first children afterwards; no mapping ever holds a name twice.
C16_GetOrInsert ==
  [][/\ \A x \in NodesOf(countries') :
          UniqueKeys(x.node.regions) /\ UniqueKeys(x.node.places)
     /\ UniqueKeys(countries')
     /\ Folds =>
          \A x \in Nodes :
            x.path \in PathsOf(Rec) =>
              \E y \in NodesOf(countries') :
                /\ y.path = x.path
                /\ Fields(y.node) =
                     Fields(update_node(x.node, Rec.lat, Rec.lng, Rec.area))
                /\ IsPrefix(Keys(x.node.regions), Keys(y.node.regions))
                /\ IsPrefix(Keys(x.node.places), Keys(y.node.places))]_vars

\* a country found again twice that kept its count, its area and its two
\* regions, with a place found again once
C16_Witness ==
  /\ \E x \in Nodes :
       /\ Len(x.path) = 1 /\ x.node.count = 3 /\ x.node.area > 0
       /\ Len(x.node.regions) = 2
  /\ \E x \in Nodes : Len(x.path) = 3 /\ x.node.count = 2

(* ---------------------------- monotonicity ---------------------------- *)
\* C17: across every step, no node is removed, no node's count or
\* has_center decreases, and a bbox never becomes absent, its minima never
\* increase and its maxima never decrease.
C17_Monotone ==
  [][\A x \in Nodes :
       \E y \in NodesOf(countries') :
         /\ y.path = x.path
         /\ y.node.count >= x.node.count
         /\ y.node.has_center >= x.node.has_center
         /\ x.node.bbox # NoneV =>
              /\ y.node.bbox # NoneV
              /\ y.node.bbox.v[1] <= x.node.bbox.v[1]
              /\ y.node.bbox.v[2] <= x.node.bbox.v[2]
              /\ y.node.bbox.v[3] >= x.node.bbox.v[3]
              /\ y.node.bbox.v[4] >= x.node.bbox.v[4]]_vars

\* a node whose bbox was widened in both directions by a second point and
\* kept when a record without coordinates went through
C17_Witness ==
  \E x \in Nodes :
    /\ x.node.count = 3 /\ x.node.has_center = 2
    /\ x.node.bbox.v[1] < x.node.bbox.v[3]
    /\ x.node.bbox.v[2] < x.node.bbox.v[4]

(* ------------------------------- frame -------------------------------- *)
\* C18: a step that folds a record leaves every node off the record's path
\* as it was, children included, and creates only nodes on that path, at
\* most one at each level; any other step leaves the tree as it was.
C18_Frame ==
  [][IF Folds
       THEN LET New == {y \in NodesOf(countries') :
                          \A x \in Nodes : x.path # y.path}
            IN  /\ \A x \in Nodes :
                     x.path \notin PathsOf(Rec) => x \in NodesOf(countries')
                /\ \A y \in New : y.path \in PathsOf(Rec)
                /\ \A n \in 1..3 :
                     Cardinality({y \in New : Len(y.path) = n}) <= 1
                /\ {y.path : y \in NodesOf(countries')} =
                     {x.path : x \in Nodes} \cup PathsOf(Rec)
       ELSE countries' = countries]_vars

\* a tree in which a fold has passed by another country and by another
\* place of the region on its path
C18_Witness ==
  /\ Len(countries) = 2
  /\ \E x \in Nodes : Len(x.path) = 2 /\ Len(x.node.places) = 2
  /\ Len(Log) = 3

(* ------------------------ parents and children ------------------------ *)
RECURSIVE SumCenter(_)
SumCenter(d) == IF d = <<>> THEN 0 ELSE Head(d).v.has_center + SumCenter(Tail(d))

\* the union of the boxes of the children in d
RECURSIVE UnionBbox(_)
UnionBbox(d) ==
  IF d = <<>> THEN NoneV ELSE MergeBbox(Head(d).v.bbox, UnionBbox(Tail(d)))

\* C19: at every level a parent's has_center is the sum of its children's,
\* and its bbox is the componentwise min/max union of its children's
\* bboxes, absent exactly when all of them are absent.
C19_ParentOverChildren ==
  \A c \in Items(countries) :
    /\ c.v.has_center = SumCenter(c.v.regions)
    /\ c.v.bbox = UnionBbox(c.v.regions)
    /\ (c.v.bbox = NoneV) <=> (\A r \in Items(c.v.regions) : r.v.bbox = NoneV)
    /\ \A r \in Items(c.v.regions) :
         /\ r.v.has_center = SumCenter(r.v.places)
         /\ r.v.bbox = UnionBbox(r.v.places)
         /\ (r.v.bbox = NoneV) <=> (\A p \in Items(r.v.places) : p.v.bbox = NoneV)

\* a country over a region without a bbox and a region whose bbox is the
\* union of the different boxes of its two places
C19_Witness ==
  \E c \in Items(countries) :
    /\ \E r \in Items(c.v.regions) : r.v.bbox = NoneV
    /\ \E r \in Items(c.v.regions) :
         /\ Len(r.v.places) = 2
         /\ r.v.places[1].v.bbox # NoneV
         /\ r.v.places[2].v.bbox # NoneV
         /\ r.v.places[1].v.bbox # r.v.places[2].v.bbox
         /\ r.v.bbox # r.v.places[1].v.bbox
    /\ c.v.has_center = 2

(* --------------------------- no empty node ---------------------------- *)
\* C20: every node has count >= 1, every country has at least one region
\* and every region at least one place.
C20_NoEmptyNode ==
  /\ \A x \in Nodes : x.node.count >= 1
  /\ \A c \in Items(countries) :
       /\ Len(c.v.regions) >= 1
       /\ \A r \in Items(c.v.regions) : Len(r.v.places) >= 1

\* a tree of two countries, one made by a single record without
\* coordinates, whose region and place count that record alone
C20_Witness ==
  /\ Len(countries) = 2
  /\ \E x \in Nodes :
       /\ Len(x.path) = 1 /\ x.node.count = 1 /\ x.node.has_center = 0
       /\ Len(x.node.regions) = 1
       /\ Len(x.node.regions[1].v.places) = 1
       /\ x.node.regions[1].v.places[1].v.count = 1

====
